---- MODULE Spec2Model ----
(***************************************************************************)
(* Model of src/app.py: the transcript -> SRT / Avid caption converter.    *)
(*                                                                         *)
(* Conventions of the model                                                *)
(*  - a Python str is a sequence of one-character strings;                 *)
(*  - a frame rate is kept in hundredths of a frame per second             *)
(*    (29.97 -> 2997, 25.0 -> 2500), so that fps = fpsN / 100 exactly;     *)
(*  - a Python float holding seconds is the exact rational                 *)
(*        s + (u + r / den) / 10^6                                         *)
(*    kept as the record [s, u, r] with 0 <= u < 10^6 and 0 <= r < den,    *)
(*    where den = n_parts * fpsN is the denominator every value of one     *)
(*    segment's arithmetic shares (division by n_parts, 1.0 / fps);        *)
(*    float rounding error is not modelled;                                *)
(*  - a datetime is [day, sec, us]: days since 1900-01-01, second of the   *)
(*    day, microsecond; a timedelta is the same record (days, seconds,     *)
(*    microseconds), as datetime.timedelta normalises it;                  *)
(*  - round() and timedelta(seconds=...) round to the nearest integer,     *)
(*    ties to even; where an exact tie is common (the frame count of       *)
(*    frames_from_timedelta, a half frame at hundredths of a second) the   *)
(*    float error decides the direction in the code, and the model leaves  *)
(*    the direction open.                                                  *)
(***************************************************************************)
EXTENDS Integers, Sequences, FiniteSets

VARIABLES pc, args, ret

vars == <<pc, args, ret>>

(***************************************************************************)
(* Characters and strings                                                  *)
(***************************************************************************)
Digits == <<"0", "1", "2", "3", "4", "5", "6", "7", "8", "9">>

IsDigit(c) == \E i \in 1..10 : Digits[i] = c

DigitVal(c) == (CHOOSE i \in 1..10 : Digits[i] = c) - 1

\* str.isspace() on the characters the model's texts use
IsSpace(c) == c \in {" ", "\t"}

\* f"{n:02d}": at least two digits, more when n >= 100
RECURSIVE Dec(_)
Dec(n) == IF n < 10 THEN <<Digits[n + 1]>> ELSE Dec(n \div 10) \o <<Digits[(n % 10) + 1]>>

Fmt02(n) == IF n < 10 THEN <<"0">> \o Dec(n) ELSE Dec(n)

\* s[i:] and s[:i] of Python, 0-based i made 1-based
From(s, i) == SubSeq(s, i, Len(s))

\* pat in s
Contains(s, pat) ==
    \E i \in 1..(Len(s) - Len(pat) + 1) : SubSeq(s, i, i + Len(pat) - 1) = pat

\* str.lower() on the letters the model's file names use
LowerChar(c) == CASE c = "A" -> "a" [] c = "V" -> "v" [] OTHER -> c

Lower(s) == [i \in 1..Len(s) |-> LowerChar(s[i])]

\* str.strip(): leading and trailing whitespace removed
RECURSIVE LStrip(_)
LStrip(s) == IF s # <<>> /\ IsSpace(s[1]) THEN LStrip(Tail(s)) ELSE s

RECURSIVE RStrip(_)
RStrip(s) ==
    IF s # <<>> /\ IsSpace(s[Len(s)]) THEN RStrip(SubSeq(s, 1, Len(s) - 1)) ELSE s

Strip(s) == RStrip(LStrip(s))

\* str.split(): the maximal runs of non-whitespace characters, in order
RECURSIVE SplitFrom(_, _, _)
SplitFrom(s, i, cur) ==
    IF i > Len(s)
    THEN IF cur = <<>> THEN <<>> ELSE <<cur>>
    ELSE IF IsSpace(s[i])
         THEN (IF cur = <<>> THEN <<>> ELSE <<cur>>) \o SplitFrom(s, i + 1, <<>>)
         ELSE SplitFrom(s, i + 1, Append(cur, s[i]))

Split(s) == SplitFrom(s, 1, <<>>)

\* sep.join(parts)
RECURSIVE Join(_, _)
Join(sep, parts) ==
    IF parts = <<>> THEN <<>>
    ELSE IF Len(parts) = 1 THEN parts[1]
    ELSE parts[1] \o sep \o Join(sep, Tail(parts))

\* s.rsplit(".", 1)[0]: s up to its last ".", all of s when it has none
RsplitDotHead(s) ==
    IF \E i \in 1..Len(s) : s[i] = "."
    THEN LET k == CHOOSE i \in 1..Len(s) :
                     s[i] = "." /\ \A j \in (i + 1)..Len(s) : s[j] # "."
         IN  SubSeq(s, 1, k - 1)
    ELSE s

(***************************************************************************)
(* Exact seconds: [s, u, r] is s + (u + r / den) / 10^6                    *)
(***************************************************************************)
QNorm(s, u, r, den) ==
    LET u2 == u + (r \div den)
    IN  [s |-> s + (u2 \div 1000000), u |-> u2 % 1000000, r |-> r % den]

QAdd(a, b, den) == QNorm(a.s + b.s, a.u + b.u, a.r + b.r, den)

QSub(a, b, den) == QNorm(a.s - b.s, a.u - b.u, a.r - b.r, den)

QMulInt(a, k, den) == QNorm(a.s * k, a.u * k, a.r * k, den)

\* a / n for a value a that is a whole number of microseconds (den is a
\* multiple of n, so the quotient is exact)
QDivInt(a, n, den) ==
    LET u1 == (a.s % n) * 1000000 + a.u
    IN  [s |-> a.s \div n, u |-> u1 \div n, r |-> (u1 % n) * (den \div n)]

QLe(a, b) ==
    \/ a.s < b.s
    \/ a.s = b.s /\ a.u < b.u
    \/ a.s = b.s /\ a.u = b.u /\ a.r <= b.r

QMax(a, b) == IF QLe(a, b) THEN b ELSE a

\* the literal 0.001
QMilli == [s |-> 0, u |-> 1000, r |-> 0]

\* 1.0 / fps = 10^8 / fpsN microseconds
QInvFps(fpsN, den) ==
    [s |-> 0, u |-> 100000000 \div fpsN, r |-> (100000000 % fpsN) * (den \div fpsN)]

\* round(num / d), ties to even, for num >= 0 and d > 0
RoundDiv(num, d) ==
    LET q == num \div d
        m == num % d
    IN  IF 2 * m < d THEN q
        ELSE IF 2 * m > d THEN q + 1
        ELSE IF q % 2 = 0 THEN q ELSE q + 1

(***************************************************************************)
(* datetime and timedelta                                                  *)
(***************************************************************************)
TNorm(day, sec, us) ==
    LET sec2 == sec + (us \div 1000000)
    IN  [day |-> day + (sec2 \div 86400), sec |-> sec2 % 86400, us |-> us % 1000000]

\* datetime + timedelta, datetime - timedelta, datetime - datetime
TAdd(a, b) == TNorm(a.day + b.day, a.sec + b.sec, a.us + b.us)

TSub(a, b) == TNorm(a.day - b.day, a.sec - b.sec, a.us - b.us)

\* datetime(1900, 1, 1)
Epoch == [day |-> 0, sec |-> 0, us |-> 0]

\* timedelta(seconds=q) for an exact q: rounded to the microsecond
TimedeltaOfQ(q, den) == TNorm(0, q.s, q.u + RoundDiv(q.r, den))

\* timedelta(seconds=k) for an integer k
TimedeltaOfInt(k) == TNorm(0, k, 0)

\* timedelta(seconds=1 / fps)
TimedeltaInvFps(fpsN) == TNorm(0, 0, RoundDiv(100000000, fpsN))

\* dt.hour*3600 + dt.minute*60 + dt.second + dt.microsecond/1e6: the time of
\* day alone, the date is not read
SecondsOfDay(dt) == [s |-> dt.sec, u |-> dt.us, r |-> 0]

(***************************************************************************)
(* drop_frame_adjust (src/app.py 8-19)                                     *)
(***************************************************************************)
\* round(time_in_seconds * fps): q * fpsN / 100 rounded, ties to even.  The
\* product is taken in pieces that stay inside 32-bit integers.
\* q * fpsN / 100 as k + (m + e) / 100 with k whole, m in 0..99 and
\* 0 <= e < 1; above says e > 0.  The product is taken in pieces that stay
\* inside 32-bit integers.
FrameParts(q, fpsN, den) ==
    LET uh  == q.u \div 1000
        ul  == q.u % 1000
        a   == uh * fpsN
        b   == (a % 1000) * 1000 + ul * fpsN
        c   == q.r * fpsN
        low == (b % 1000000) + (c \div den)
        w   == q.s * fpsN + (a \div 1000) + (b \div 1000000) + (low \div 1000000)
    IN  [k |-> w \div 100, m |-> w % 100,
         above |-> (low % 1000000) > 0 \/ (c % den) > 0]

\* whether q * fps lies exactly halfway between two integers
FrameTie(q, fpsN, den) ==
    LET p == FrameParts(q, fpsN, den) IN p.m = 50 /\ ~p.above

\* round(time_in_seconds * fps), ties to even
RoundFrames(q, fpsN, den) ==
    LET p == FrameParts(q, fpsN, den)
    IN  IF p.m < 50 THEN p.k
        ELSE IF p.m > 50 \/ p.above THEN p.k + 1
        ELSE IF p.k % 2 = 0 THEN p.k ELSE p.k + 1

\* timedelta(seconds=frames / fps)
TimedeltaOfFrames(frames, fpsN) ==
    LET sec  == (frames * 100) \div fpsN
        rem  == (frames * 100) % fpsN
        ms   == (rem * 1000) \div fpsN
        rem2 == (rem * 1000) % fpsN
    IN  TNorm(0, sec, ms * 1000 + RoundDiv(rem2 * 1000, fpsN))

IsDropFrame(fpsN) == fpsN \in {2997, 5994}

MaxOf(a, b) == IF a >= b THEN a ELSE b

\* number of minute steps counted inside the current 10-minute block:
\* max(0, (m - drop_frames) // (frames_per_minute - drop_frames))
MinuteSteps(m, drop_frames, frames_per_minute) ==
    MaxOf(0, (m - drop_frames) \div (frames_per_minute - drop_frames))

\* the locals of drop_frame_adjust on its drop-frame path (lines 11-18)
DropFrameLocals(q, fpsN, den) ==
    LET total_frames          == RoundFrames(q, fpsN, den)
        drop_frames           == IF fpsN = 2997 THEN 2 ELSE 4
        frames_per_10_minutes == RoundDiv(fpsN * 600, 100)
        frames_per_minute     == RoundDiv(fpsN * 60, 100)
        d                     == total_frames \div frames_per_10_minutes
        m                     == total_frames % frames_per_10_minutes
        dropped               == drop_frames * (9 * d + MinuteSteps(m, drop_frames, frames_per_minute))
    IN  [total_frames |-> total_frames, drop_frames |-> drop_frames,
         frames_per_10_minutes |-> frames_per_10_minutes,
         frames_per_minute |-> frames_per_minute,
         d |-> d, m |-> m, dropped |-> dropped,
         adjusted_frames |-> total_frames - dropped]

drop_frame_adjust(q, fpsN, den) ==
    IF ~IsDropFrame(fpsN)
    THEN TimedeltaOfQ(q, den)
    ELSE TimedeltaOfFrames(DropFrameLocals(q, fpsN, den).adjusted_frames, fpsN)

(***************************************************************************)
(* detect_framerate, parse_timecode, fmt_srt, frames_from_timedelta        *)
(***************************************************************************)
\* the candidates of detect_framerate, in its order, with float(val) * 100
FramerateVals ==
    << [val |-> <<"2", "9", ".", "9", "7">>, fpsN |-> 2997],
       [val |-> <<"3", "0">>,                fpsN |-> 3000],
       [val |-> <<"2", "5">>,                fpsN |-> 2500],
       [val |-> <<"2", "4">>,                fpsN |-> 2400] >>

detect_framerate(file_name) ==
    LET name == Lower(file_name)
        hits == {i \in 1..Len(FramerateVals) : Contains(name, FramerateVals[i].val)}
    IN  IF hits = {} THEN 2500
        ELSE FramerateVals[CHOOSE i \in hits : \A j \in hits : i <= j].fpsN

\* the fields strptime("%H:%M:%S.%f") reads from "HH:MM:SS.ff"
TcFields(tc) ==
    [h  |-> 10 * DigitVal(tc[1]) + DigitVal(tc[2]),
     mi |-> 10 * DigitVal(tc[4]) + DigitVal(tc[5]),
     se |-> 10 * DigitVal(tc[7]) + DigitVal(tc[8]),
     cs |-> 10 * DigitVal(tc[10]) + DigitVal(tc[11])]

\* strptime raises ValueError unless hour <= 23, minute <= 59, second <= 59
TimecodeValid(tc) ==
    LET f == TcFields(tc) IN f.h <= 23 /\ f.mi <= 59 /\ f.se <= 59

\* the datetime of a valid timecode (on 1900-01-01); two fraction digits are
\* hundredths of a second
parse_timecode(tc) ==
    LET f == TcFields(tc)
    IN  [day |-> 0, sec |-> f.h * 3600 + f.mi * 60 + f.se, us |-> f.cs * 10000]

\* three digits
Fmt03(n) == IF n < 100 THEN <<"0">> \o Fmt02(n) ELSE Dec(n)

\* dt.strftime("%H:%M:%S,%f")[:-3]: the time of day, microseconds cut to
\* milliseconds
fmt_srt(dt) ==
    Fmt02(dt.sec \div 3600) \o <<":">> \o Fmt02((dt.sec % 3600) \div 60) \o <<":">>
        \o Fmt02(dt.sec % 60) \o <<",">> \o Fmt03(dt.us \div 1000)

\* up: the direction of round() when the fraction of a second times fps is
\* an exact half (decided in the code by the float error of total_seconds)
frames_from_timedelta(td, fpsN, up) ==
    LET total   == td.day * 86400 + td.sec
        hours   == total \div 3600
        minutes == (total % 3600) \div 60
        seconds == total % 60
        frac    == [s |-> 0, u |-> td.us, r |-> 0]
        rounded == IF FrameTie(frac, fpsN, fpsN)
                   THEN FrameParts(frac, fpsN, fpsN).k + (IF up THEN 1 ELSE 0)
                   ELSE RoundFrames(frac, fpsN, fpsN)
        frames  == IF rounded * 100 >= fpsN THEN (fpsN - 100) \div 100 ELSE rounded
    IN  Fmt02(hours) \o <<":">> \o Fmt02(minutes) \o <<":">> \o Fmt02(seconds)
            \o <<":">> \o Fmt02(frames)

(***************************************************************************)
(* wrap_text_to_lines (src/app.py 44-57)                                   *)
(***************************************************************************)
\* Fits with the separating space left out of the count
FitsNoSpace(cur, w, max_chars) == Len(cur) + Len(w) <= max_chars

\* whether the loop appends w to the current line
Fits(cur, w, max_chars) == Len(cur) + 1 + Len(w) <= max_chars

\* the loop over words[1:], from word i on, with the current line cur
RECURSIVE WrapFrom(_, _, _, _)
WrapFrom(words, i, cur, max_chars) ==
    IF i > Len(words) THEN <<cur>>
    ELSE IF Fits(cur, words[i], max_chars)
         THEN WrapFrom(words, i + 1, cur \o <<" ">> \o words[i], max_chars)
         ELSE <<cur>> \o WrapFrom(words, i + 1, words[i], max_chars)

wrap_text_to_lines(text, max_chars) ==
    LET words == Split(text)
    IN  IF words = <<>> THEN << <<>> >> ELSE WrapFrom(words, 2, words[1], max_chars)

(***************************************************************************)
(* convert_to_srt (src/app.py 62-143)                                      *)
(***************************************************************************)
\* re.match(r"\[(\d{2}:\d{2}:\d{2}\.\d{2})\]\s*(.*)", line): anchored at the
\* start of the line, not at its end
LineMatches(line) ==
    /\ Len(line) >= 13
    /\ line[1] = "[" /\ line[13] = "]"
    /\ \A i \in {2, 3, 5, 6, 8, 9, 11, 12} : IsDigit(line[i])
    /\ line[4] = ":" /\ line[7] = ":" /\ line[10] = "."

\* m.groups(): the timecode, and the rest of the line after the whitespace
\* that follows the bracket
LineGroups(line) == [tc |-> SubSeq(line, 2, 12), text |-> LStrip(From(line, 14))]

\* the loop of lines 72-75 from line i on
RECURSIVE ParsedFrom(_, _)
ParsedFrom(content, i) ==
    IF i > Len(content) THEN <<>>
    ELSE (IF LineMatches(content[i]) THEN <<LineGroups(content[i])>> ELSE <<>>)
             \o ParsedFrom(content, i + 1)

ParseLines(content) == ParsedFrom(content, 1)

\* end_dt of entry i (lines 83-87)
SegmentEndDt(parsed, i, fpsN, default_last_duration) ==
    IF i + 1 <= Len(parsed)
    THEN TSub(parse_timecode(parsed[i + 1].tc), TimedeltaInvFps(fpsN))
    ELSE TAdd(parse_timecode(parsed[i].tc), TimedeltaOfInt(default_last_duration))

\* max(end_seconds - start_seconds, 0.001)
SegmentDuration(start_seconds, end_seconds) ==
    QMax(QSub(end_seconds, start_seconds, 1), QMilli)

\* the segment of entry i (lines 82-96), i 1-based
BuildSegment(parsed, i, fpsN, default_last_duration) ==
    LET start_dt      == parse_timecode(parsed[i].tc)
        end_dt        == SegmentEndDt(parsed, i, fpsN, default_last_duration)
        start_seconds == SecondsOfDay(start_dt)
        end_seconds   == SecondsOfDay(end_dt)
    IN  [start_s    |-> start_seconds,
         end_s      |-> end_seconds,
         duration_s |-> SegmentDuration(start_seconds, end_seconds),
         text       |-> Strip(parsed[i].text)]

BuildSegments(parsed, fpsN, default_last_duration) ==
    [i \in 1..Len(parsed) |-> BuildSegment(parsed, i, fpsN, default_last_duration)]

\* len([lines[i:i+k] for i in range(0, len(lines), k)])
NumParts(lines, max_lines_per_caption) ==
    (Len(lines) + max_lines_per_caption - 1) \div max_lines_per_caption

\* grouped[p_idx], p_idx 0-based
GroupLines(lines, max_lines_per_caption, p_idx) ==
    LET lo == p_idx * max_lines_per_caption + 1
        hi == IF lo + max_lines_per_caption - 1 <= Len(lines)
              THEN lo + max_lines_per_caption - 1 ELSE Len(lines)
    IN  SubSeq(lines, lo, hi)

\* seg["start_s"] + p_idx * part_duration
PartStart(seg, part_duration, p_idx, den) ==
    QAdd(seg.start_s, QMulInt(part_duration, p_idx, den), den)

\* PartEnd with the frame interval never subtracted
PartEndNoFrame(seg, part_duration, p_idx, fpsN, den) ==
    QAdd(seg.start_s, QMulInt(part_duration, p_idx + 1, den), den)

\* part_end after lines 106-108
PartEnd(seg, part_duration, p_idx, fpsN, den) ==
    LET part_start == PartStart(seg, part_duration, p_idx, den)
        part_end   == QSub(QAdd(seg.start_s, QMulInt(part_duration, p_idx + 1, den), den),
                           QInvFps(fpsN, den), den)
    IN  IF QLe(part_end, part_start)
        THEN QAdd(part_start, QMax(QMilli, part_duration), den)
        ELSE part_end

\* the locals of one turn of the inner loop (lines 104-116); seg_idx is the
\* 1-based position of seg in segments, p_idx the 0-based part index
SplitPart(seg, seg_idx, lines, max_lines_per_caption, p_idx, fpsN) ==
    LET n_parts       == NumParts(lines, max_lines_per_caption)
        den           == n_parts * fpsN
        part_duration == QDivInt(seg.duration_s, n_parts, den)
        part_start    == PartStart(seg, part_duration, p_idx, den)
        part_end      == PartEnd(seg, part_duration, p_idx, fpsN, den)
    IN  [seg_idx       |-> seg_idx,
         p_idx         |-> p_idx,
         n_parts       |-> n_parts,
         part_duration |-> part_duration,
         part_start    |-> part_start,
         part_end      |-> part_end,
         start_dt      |-> TAdd(Epoch, drop_frame_adjust(part_start, fpsN, den)),
         end_dt        |-> TAdd(Epoch, drop_frame_adjust(part_end, fpsN, den)),
         text          |-> Join(<<"\n">>, GroupLines(lines, max_lines_per_caption, p_idx))]

\* the entries one segment appends to srt_entries, in p_idx order
SplitSegment(seg, seg_idx, max_chars_per_line, max_lines_per_caption, fpsN) ==
    LET lines == wrap_text_to_lines(seg.text, max_chars_per_line)
    IN  [p \in 1..NumParts(lines, max_lines_per_caption) |->
            SplitPart(seg, seg_idx, lines, max_lines_per_caption, p - 1, fpsN)]

\* the outer loop of lines 99-116 from segment i on
RECURSIVE SplitFromSegment(_, _, _, _, _)
SplitFromSegment(segments, i, max_chars_per_line, max_lines_per_caption, fpsN) ==
    IF i > Len(segments) THEN <<>>
    ELSE SplitSegment(segments[i], i, max_chars_per_line, max_lines_per_caption, fpsN)
             \o SplitFromSegment(segments, i + 1, max_chars_per_line,
                                 max_lines_per_caption, fpsN)

SplitSegments(segments, max_chars_per_line, max_lines_per_caption, fpsN) ==
    SplitFromSegment(segments, 1, max_chars_per_line, max_lines_per_caption, fpsN)

\* what srt_entries keeps of the loop's locals
SrtEntry(part) == [start_dt |-> part.start_dt, end_dt |-> part.end_dt, text |-> part.text]

\* f"{idx}\n{fmt_srt(e['start_dt'])} --> {fmt_srt(e['end_dt'])}\n{e['text']}\n"
SrtUnit(idx, e) ==
    Dec(idx) \o <<"\n">> \o fmt_srt(e.start_dt) \o <<" ", "-", "-", ">", " ">>
        \o fmt_srt(e.end_dt) \o <<"\n">> \o e.text \o <<"\n">>

\* SrtLines with enumerate() left at its default start of 0
SrtLinesFromZero(srt_entries) ==
    [k \in 1..Len(srt_entries) |-> SrtUnit(k - 1, srt_entries[k])]

\* the loop of lines 138-139: enumerate(srt_entries, start=1)
SrtLines(srt_entries) ==
    [k \in 1..Len(srt_entries) |-> SrtUnit(k, srt_entries[k])]

\* f"{start_fc} {end_fc} {text_clean}"
AvidLine(e, fpsN, up_start, up_end) ==
    frames_from_timedelta(TSub(e.start_dt, Epoch), fpsN, up_start) \o <<" ">>
        \o frames_from_timedelta(TSub(e.end_dt, Epoch), fpsN, up_end) \o <<" ">>
        \o [i \in 1..Len(e.text) |-> IF e.text[i] = "\n" THEN " " ELSE e.text[i]]

\* "@ This file written with the Avid Caption plugin, version 1", "",
\* "<begin subtitles>"
AvidHeader ==
    << <<"@", " ", "T", "h", "i", "s", " ", "f", "i", "l", "e", " ",
         "w", "r", "i", "t", "t", "e", "n", " ", "w", "i", "t", "h",
         " ", "t", "h", "e", " ", "A", "v", "i", "d", " ", "C", "a",
         "p", "t", "i", "o", "n", " ", "p", "l", "u", "g", "i", "n",
         ",", " ", "v", "e", "r", "s", "i", "o", "n", " ", "1">>,
       <<>>,
       <<"<", "b", "e", "g", "i", "n", " ", "s", "u", "b", "t", "i", "t", "l", "e", "s", ">">> >>

\* "", "<end subtitles>"
AvidFooter == << <<>>, <<"<", "e", "n", "d", " ", "s", "u", "b", "t", "i", "t", "l", "e", "s", ">">> >>

\* ties[2k-1], ties[2k]: the tie directions of entry k's start and end
AvidLines(srt_entries, fpsN, ties) ==
    AvidHeader
        \o [k \in 1..Len(srt_entries) |->
               AvidLine(srt_entries[k], fpsN, ties[2 * k - 1], ties[2 * k])]
        \o AvidFooter

\* the number of rendered units the preview shows
PreviewUnits == 5

\* "\n".join(units[from:from+5]) + ("\n...\n" if more follow)
Preview(units, skip) ==
    LET hi == IF skip + PreviewUnits <= Len(units) THEN skip + PreviewUnits ELSE Len(units)
    IN  Join(<<"\n">>, SubSeq(units, skip + 1, hi))
            \o (IF Len(units) > skip + PreviewUnits
                THEN <<"\n", ".", ".", ".", "\n">> ELSE <<>>)

\* the suffix of the SRT file name (line 142)
SrtSuffix(custom_suffix) == <<"_", "c", "o", "n", "v", "e", "r", "t", "e", "d">>

\* the file name returned (lines 133, 142)
OutputFileName(file_name, export_avid, custom_suffix) ==
    IF export_avid
    THEN RsplitDotHead(file_name) \o <<"_", "a", "v", "i", "d", ".", "t", "x", "t">>
    ELSE RsplitDotHead(file_name) \o SrtSuffix(custom_suffix) \o <<".", "s", "r", "t">>

\* NoTimecodes asking for at least two entries
NoTimecodesUnderTwo(parsed) == Len(parsed) < 2

\* line 77: if not parsed
NoTimecodes(parsed) == parsed = <<>>

\* what a call raises
RaiseNoTimecodes == [status |-> "raise", error |-> "ValueError: No valid timecodes found"]

RaiseFormat == [status |-> "raise", error |-> "ValueError: strptime"]

\* the number of entries a call puts in srt_entries (0 when it raises)
EntryCount(a) ==
    LET fpsN   == detect_framerate(a.file_name)
        parsed == ParseLines(a.content)
    IN  IF NoTimecodes(parsed) \/ \E i \in 1..Len(parsed) : ~TimecodeValid(parsed[i].tc)
        THEN 0
        ELSE Len(SplitSegments(BuildSegments(parsed, fpsN, a.default_last_duration),
                               a.max_chars_per_line, a.max_lines_per_caption, fpsN))

\* the tie directions the float error may take in one call: two per entry in
\* Avid mode, none in SRT mode
TieChoices(a) ==
    IF a.export_avid THEN [1..(2 * EntryCount(a)) -> BOOLEAN] ELSE {<<>>}

\* the call convert_to_srt(content, file_name, ...): the tuple returned, with
\* the locals parsed, segments and the inner loop's turns, or the exception
convert_to_srt(a, ties) ==
    LET fpsN   == detect_framerate(a.file_name)
        parsed == ParseLines(a.content)
    IN  IF NoTimecodes(parsed) THEN RaiseNoTimecodes
        ELSE IF \E i \in 1..Len(parsed) : ~TimecodeValid(parsed[i].tc) THEN RaiseFormat
        ELSE
        LET segments    == BuildSegments(parsed, fpsN, a.default_last_duration)
            parts       == SplitSegments(segments, a.max_chars_per_line,
                                         a.max_lines_per_caption, fpsN)
            srt_entries == [k \in 1..Len(parts) |-> SrtEntry(parts[k])]
            units       == IF a.export_avid THEN AvidLines(srt_entries, fpsN, ties)
                           ELSE SrtLines(srt_entries)
        IN  [status        |-> "return",
             text          |-> Join(<<"\n">>, units),
             preview       |-> Preview(units, IF a.export_avid THEN 2 ELSE 0),
             file_name_out |-> OutputFileName(a.file_name, a.export_avid, a.custom_suffix),
             fps           |-> fpsN,
             parsed        |-> parsed,
             segments      |-> segments,
             parts         |-> parts,
             srt_entries   |-> srt_entries,
             units         |-> units]

(***************************************************************************)
(* The calls the model makes                                               *)
(***************************************************************************)
\* "HH:MM:SS.ff" of the four numbers
TcStr(h, mi, se, cs) ==
    Fmt02(h) \o <<":">> \o Fmt02(mi) \o <<":">> \o Fmt02(se) \o <<".">> \o Fmt02(cs)

\* the transcript line "[tc] text"
EntryLine(tc, text) == <<"[">> \o tc \o <<"]", " ">> \o text

TxtHello == <<"H", "e", "l", "l", "o", " ", "t", "h", "e", "r", "e">>

TxtBye == <<"B", "y", "e">>

TxtFive == <<"a", "a", " ", "b", "b", " ", "c", "c", " ", "d", "d", " ", "e", "e">>

TxtThree == <<"c", "c", " ", "d", "d", " ", "e", "e">>

\* lines that match the line pattern and parse
GoodLines ==
    { EntryLine(TcStr(0, 0, 1, 0), TxtHello),
      EntryLine(TcStr(0, 0, 3, 0), TxtBye),
      EntryLine(TcStr(0, 0, 1, 0), TxtFive),
      EntryLine(TcStr(0, 0, 1, 10), TxtThree),
      EntryLine(TcStr(0, 0, 0, 0), <<"x">>),
      EntryLine(TcStr(23, 59, 58, 0), TxtBye),
      EntryLine(TcStr(0, 0, 59, 96), <<"a", "a", " ", "b", "b", " ", " ">>),
      <<"[">> \o TcStr(0, 1, 0, 6) \o <<"]">> }

\* lines that match the line pattern and do not parse as a time of day
BadTimeLines == { EntryLine(TcStr(24, 0, 0, 0), <<"x">>) }

\* lines that do not match the line pattern
JunkLines ==
    { TxtHello,
      <<" ">> \o EntryLine(TcStr(0, 0, 1, 0), <<"x">>),
      <<"[">> \o Tail(TcStr(0, 0, 1, 0)) \o <<"]", " ", "x">> }

LinePool == GoodLines \cup BadTimeLines \cup JunkLines

\* the most lines a transcript of the model has
MaxEntries == 2

\* the longest default_last_duration, in seconds
MaxLastDuration == 3

\* the most lines per caption
MaxLinesPerCaption == 2

\* the wrap widths the calls use: one that splits the texts, and the default
WidthPool == {5, 42}

RECURSIVE SeqsUpTo(_, _)
SeqsUpTo(S, n) ==
    IF n = 0 THEN {<<>>}
    ELSE LET shorter == SeqsUpTo(S, n - 1)
         IN  shorter \cup {Append(q, x) : q \in {t \in shorter : Len(t) = n - 1}, x \in S}

NameA == <<"a", ".", "t", "x", "t">>

Name2997 == <<"c", "2", "9", ".", "9", "7", ".", "t", "x", "t">>

NamePool ==
    { NameA, Name2997,
      <<"V", "3", "0", ".", "s", "r", "t">>,
      <<"f", "2", "4">>,
      <<"m", "y", ".", "x", "2", "5", ".", "l", "o", "g">>,
      <<"2", "4", "_", "3", "0", ".", "t", "x", "t">> }

SuffixConverted == <<"_", "c", "o", "n", "v", "e", "r", "t", "e", "d">>

SuffixPool == { SuffixConverted, <<"_", "e", "n">>, <<>> }

ScenarioA == << EntryLine(TcStr(0, 0, 1, 0), TxtHello), EntryLine(TcStr(0, 0, 3, 0), TxtBye) >>

Call(content, file_name, dld, max_chars, max_lines, export_avid, custom_suffix) ==
    [content               |-> content,
     file_name             |-> file_name,
     default_last_duration |-> dld,
     max_chars_per_line    |-> max_chars,
     max_lines_per_caption |-> max_lines,
     export_avid           |-> export_avid,
     custom_suffix         |-> custom_suffix]

\* every transcript of the model, at 25 fps and at 29.97 fps, at both widths
TranscriptCalls ==
    { Call(c, n, 3, w, k, FALSE, SuffixConverted) :
        c \in SeqsUpTo(LinePool, MaxEntries), n \in {NameA, Name2997},
        w \in WidthPool, k \in 1..MaxLinesPerCaption }

\* every file name, rendering mode and suffix, on Scenario A
NamingCalls ==
    { Call(ScenarioA, n, 3, 42, 2, av, sfx) :
        n \in NamePool, av \in BOOLEAN, sfx \in SuffixPool }

\* every default_last_duration, on the transcripts of good lines alone
DurationCalls ==
    { Call(c, NameA, d, 5, 1, FALSE, SuffixConverted) :
        c \in SeqsUpTo(GoodLines, MaxEntries) \ {<<>>}, d \in 1..MaxLastDuration }

\* Avid rendering of every one-line transcript
AvidCalls ==
    { Call(<<l>>, n, 3, w, 2, TRUE, SuffixConverted) :
        l \in GoodLines, n \in {NameA, Name2997}, w \in WidthPool }

CallArgs == TranscriptCalls \cup NamingCalls \cup DurationCalls \cup AvidCalls

None == [status |-> "none"]

Init ==
    /\ pc = "call"
    /\ args \in CallArgs
    /\ ret = None

\* one call of convert_to_srt, to its return or its exception
ConvertToSrt ==
    /\ pc = "call"
    /\ \E ties \in TieChoices(args) : ret' = convert_to_srt(args, ties)
    /\ pc' = "done"
    /\ UNCHANGED args

Next == ConvertToSrt

Spec == Init /\ [][Next]_vars

(***************************************************************************)
(* wrap_text_to_lines and drop_frame_adjust called on their own            *)
(***************************************************************************)
\* the longest text wrapped on its own, in characters
MaxTextLen == 8

\* the largest max_chars wrapped to on its own
MaxWrapChars == 3

WrapCalls ==
    { [text |-> t, max_chars |-> w] :
        t \in SeqsUpTo({"a", "b", " "}, MaxTextLen), w \in 1..MaxWrapChars }

InitWrap ==
    /\ pc = "call"
    /\ args \in WrapCalls
    /\ ret = None

WrapTextToLines ==
    /\ pc = "call"
    /\ ret' = wrap_text_to_lines(args.text, args.max_chars)
    /\ pc' = "done"
    /\ UNCHANGED args

NextWrap == WrapTextToLines

SpecWrap == InitWrap /\ [][NextWrap]_vars

\* the latest time_in_seconds adjusted on its own, in whole seconds
MaxSeconds == 1210

\* whole and half seconds, at every rate of drop_frame_adjust's list and at
\* the default rate
DropFrameCalls ==
    { [time_in_seconds |-> [s |-> sec, u |-> us, r |-> 0], fps |-> f] :
        sec \in 0..MaxSeconds, us \in {0, 500000}, f \in {2997, 5994, 2500} }

InitDropFrame ==
    /\ pc = "call"
    /\ args \in DropFrameCalls
    /\ ret = None

\* one call of drop_frame_adjust: the timedelta returned, with the locals of
\* the drop-frame path when it is taken
DropFrameAdjust ==
    /\ pc = "call"
    /\ ret' = [result |-> drop_frame_adjust(args.time_in_seconds, args.fps, args.fps),
               locals |-> IF IsDropFrame(args.fps)
                          THEN DropFrameLocals(args.time_in_seconds, args.fps, args.fps)
                          ELSE None]
    /\ pc' = "done"
    /\ UNCHANGED args

NextDropFrame == DropFrameAdjust

SpecDropFrame == InitDropFrame /\ [][NextDropFrame]_vars

(***************************************************************************)
(* Properties                                                              *)
(***************************************************************************)
Returned == pc = "done" /\ ret.status = "return"

\* s.split("\n")
RECURSIVE SplitNewlineFrom(_, _, _)
SplitNewlineFrom(s, i, cur) ==
    IF i > Len(s) THEN <<cur>>
    ELSE IF s[i] = "\n" THEN <<cur>> \o SplitNewlineFrom(s, i + 1, <<>>)
    ELSE SplitNewlineFrom(s, i + 1, Append(cur, s[i]))

SplitNewline(s) == SplitNewlineFrom(s, 1, <<>>)

\* the number a string of digits writes (-1 when it is no such string)
RECURSIVE DecValue(_)
DecValue(ds) ==
    IF ds = <<>> \/ \E i \in 1..Len(ds) : ~IsDigit(ds[i]) THEN -1
    ELSE IF Len(ds) = 1 THEN DigitVal(ds[1])
    ELSE 10 * DecValue(SubSeq(ds, 1, Len(ds) - 1)) + DigitVal(ds[Len(ds)])

\* the index line, the timecode line and the text of a rendered SRT unit
UnitIndex(unit) == DecValue(SplitNewline(unit)[1])

UnitTimes(unit) == SplitNewline(unit)[2]

UnitText(unit) ==
    LET ls == SplitNewline(unit) IN Join(<<"\n">>, SubSeq(ls, 3, Len(ls) - 1))

Arrow == <<" ", "-", "-", ">", " ">>

TLater(a, b) ==
    \/ a.day > b.day
    \/ a.day = b.day /\ a.sec > b.sec
    \/ a.day = b.day /\ a.sec = b.sec /\ a.us > b.us

\* the exact seconds of a timedelta
QOfTimedelta(td) == [s |-> td.day * 86400 + td.sec, u |-> td.us, r |-> 0]

\* the caption blocks the splitter makes of segment i of the call
BlocksOfSegment(i) ==
    NumParts(wrap_text_to_lines(ret.segments[i].text, args.max_chars_per_line),
             args.max_lines_per_caption)

RECURSIVE BlocksBefore(_)
BlocksBefore(i) == IF i <= 1 THEN 0 ELSE BlocksBefore(i - 1) + BlocksOfSegment(i - 1)

\* the sum over the blocks k..Len(parts) of segment i of part_end - part_start
RECURSIVE SumDurationsFrom(_, _, _)
SumDurationsFrom(i, k, den) ==
    IF k > Len(ret.parts) THEN [s |-> 0, u |-> 0, r |-> 0]
    ELSE IF ret.parts[k].seg_idx # i THEN SumDurationsFrom(i, k + 1, den)
    ELSE QAdd(QSub(ret.parts[k].part_end, ret.parts[k].part_start, den),
              SumDurationsFrom(i, k + 1, den), den)

SegDen(i) == BlocksOfSegment(i) * ret.fps

\* duration_seconds - n_parts * (1 / fps) of segment i
DurationLessFrames(i) ==
    QSub(ret.segments[i].duration_s,
         QMulInt(QInvFps(ret.fps, SegDen(i)), BlocksOfSegment(i), SegDen(i)), SegDen(i))

\* whether the guard of line 107 fires in segment i: part_duration <= 1 / fps
GuardFires(i) ==
    QLe(QDivInt(ret.segments[i].duration_s, BlocksOfSegment(i), SegDen(i)),
        QInvFps(ret.fps, SegDen(i)))

\* C1 (as claimed): at a non-drop-frame fps, a rendered SRT block of an entry
\* that wraps into one caption block starts at the entry's timecode and ends one
\* frame interval before the next entry's timecode, or at start +
\* default_last_duration for the final entry.
C1_SinglePartBlockTimes ==
    (Returned /\ ~args.export_avid /\ ~IsDropFrame(ret.fps)) =>
        \A k \in 1..Len(ret.parts) :
            ret.parts[k].n_parts = 1 =>
                LET i     == ret.parts[k].seg_idx
                    start == parse_timecode(ret.parsed[i].tc)
                    end   == IF i < Len(ret.parsed)
                             THEN TSub(parse_timecode(ret.parsed[i + 1].tc),
                                       TimedeltaInvFps(ret.fps))
                             ELSE TAdd(start, TimedeltaOfInt(args.default_last_duration))
                IN  UnitTimes(ret.units[k]) = fmt_srt(start) \o Arrow \o fmt_srt(end)

\* C2 (as claimed): end_seconds of entry i is the start_seconds of entry i+1
\* minus 1/fps, or start_seconds(i) + default_last_duration for the last
\* entry, also across midnight.
C2_SegmentEndSeconds ==
    Returned =>
        \A i \in 1..Len(ret.segments) :
            ret.segments[i].end_s =
                IF i < Len(ret.segments)
                THEN QSub(ret.segments[i + 1].start_s,
                          QOfTimedelta(TimedeltaInvFps(ret.fps)), 1)
                ELSE QAdd(ret.segments[i].start_s,
                          [s |-> args.default_last_duration, u |-> 0, r |-> 0], 1)

\* C3: in SRT mode the rendered output has one unit per caption block the
\* splitter makes, unit k carries the index k, and the units come in segment
\* order and, within a segment, in part order, each with its block's text.
C3_SrtIndices ==
    (Returned /\ ~args.export_avid) =>
        /\ Len(ret.units) = BlocksBefore(Len(ret.segments) + 1)
        /\ Len(ret.units) = Len(ret.parts)
        /\ \A k \in 1..Len(ret.units) :
              /\ UnitIndex(ret.units[k]) = k
              /\ BlocksBefore(ret.parts[k].seg_idx) + ret.parts[k].p_idx + 1 = k
              /\ ret.parts[k].p_idx < BlocksOfSegment(ret.parts[k].seg_idx)
              /\ UnitText(ret.units[k]) =
                     Join(<<"\n">>,
                          GroupLines(wrap_text_to_lines(ret.segments[ret.parts[k].seg_idx].text,
                                                        args.max_chars_per_line),
                                     args.max_lines_per_caption, ret.parts[k].p_idx))
        /\ ret.text = Join(<<"\n">>, ret.units)

\* C3 witness: a rendered SRT file of two segments, one split in several blocks
C3_Witness ==
    /\ Returned /\ ~args.export_avid
    /\ Len(ret.segments) >= 2
    /\ \E k \in 1..Len(ret.parts) : ret.parts[k].p_idx >= 1
    /\ \E k \in 1..Len(ret.parts) : ret.parts[k].seg_idx = 2 /\ ret.parts[k].n_parts = 1

\* C5 (as claimed): for every segment, guard or no guard, the blocks'
\* part_end - part_start sum to duration_seconds - n_parts * (1/fps).
C5_PartDurationsSum ==
    Returned =>
        \A i \in 1..Len(ret.segments) :
            SumDurationsFrom(i, 1, SegDen(i)) = DurationLessFrames(i)

\* C5 (amended): when part_duration exceeds 1/fps the blocks' part_end -
\* part_start sum to duration_seconds - n_parts * (1/fps); otherwise the guard
\* fires in every block and they sum to n_parts * max(0.001, part_duration).
C5_PartDurationsSumAmended ==
    Returned =>
        \A i \in 1..Len(ret.segments) :
            SumDurationsFrom(i, 1, SegDen(i)) =
                IF ~GuardFires(i) THEN DurationLessFrames(i)
                ELSE QMulInt(QMax(QMilli, QDivInt(ret.segments[i].duration_s,
                                                  BlocksOfSegment(i), SegDen(i))),
                             BlocksOfSegment(i), SegDen(i))

\* C5 witness: one call with a segment of several blocks where the guard
\* fires and a segment of several blocks where it does not
C5_Witness ==
    /\ Returned
    /\ \E i \in 1..Len(ret.segments) : BlocksOfSegment(i) >= 2 /\ GuardFires(i)
    /\ \E i \in 1..Len(ret.segments) : BlocksOfSegment(i) >= 2 /\ ~GuardFires(i)

RECURSIVE Flatten(_)
Flatten(ss) == IF ss = <<>> THEN <<>> ELSE Head(ss) \o Flatten(Tail(ss))

\* C6: wrap_text_to_lines returns at least one line, a line longer than
\* max_chars is a single word, and the words of the lines in order are the
\* words of the text.
C6_WrapLines ==
    pc = "done" =>
        /\ Len(ret) >= 1
        /\ \A i \in 1..Len(ret) :
              Len(ret[i]) > args.max_chars => Split(ret[i]) = <<ret[i]>>
        /\ Flatten([i \in 1..Len(ret) |-> Split(ret[i])]) = Split(args.text)

\* C6 witness: a wrap with a word longer than max_chars on a line of its own
\* and a line of two words
C6_Witness ==
    /\ pc = "done"
    /\ \E i \in 1..Len(ret) : Len(ret[i]) > args.max_chars
    /\ \E i \in 1..Len(ret) : Len(Split(ret[i])) >= 2

MatchingLines == {i \in 1..Len(args.content) : LineMatches(args.content[i])}

\* C7: convert_to_srt raises the no-timecodes error exactly when no line
\* matches the line pattern, and then returns nothing else; lines that do not
\* match are dropped without an error of their own.
C7_NoTimecodesError ==
    pc = "done" =>
        /\ (ret = RaiseNoTimecodes) <=> (MatchingLines = {})
        /\ ret.status = "raise" => DOMAIN ret = {"status", "error"}
        /\ (MatchingLines # {}
              /\ \A i \in MatchingLines : TimecodeValid(LineGroups(args.content[i]).tc))
           => /\ ret.status = "return"
              /\ Len(ret.parsed) = Cardinality(MatchingLines)
              /\ Len(ret.segments) = Cardinality(MatchingLines)

\* C7 witness: a transcript of lines none of which matches, and the error
C7_Witness ==
    /\ pc = "done"
    /\ Len(args.content) >= 2
    /\ ret = RaiseNoTimecodes

\* C8 (as claimed): the SRT file name is the input name without its last
\* extension, then the configured suffix, then ".srt"; the Avid file name is
\* the input name without its last extension, then "_avid.txt".
C8_OutputFileName ==
    Returned =>
        ret.file_name_out =
            IF args.export_avid
            THEN RsplitDotHead(args.file_name)
                     \o <<"_", "a", "v", "i", "d", ".", "t", "x", "t">>
            ELSE RsplitDotHead(args.file_name) \o args.custom_suffix
                     \o <<".", "s", "r", "t">>

\* C9 (as claimed): every caption block stored has an end time later than its
\* start time, drop-frame adjusted or not.
C9_BlockEndAfterStart ==
    Returned =>
        \A k \in 1..Len(ret.srt_entries) :
            TLater(ret.srt_entries[k].end_dt, ret.srt_entries[k].start_dt)

\* C10 (as claimed): within a segment, the end of block p before drop-frame
\* adjustment is not later than the start of block p+1.
C10_BlocksDoNotOverlap ==
    Returned =>
        \A k \in 1..(Len(ret.parts) - 1) :
            ret.parts[k].seg_idx = ret.parts[k + 1].seg_idx =>
                QLe(ret.parts[k].part_end, ret.parts[k + 1].part_start)

\* C4 (as claimed): dropped = drop_frames * (9 * d + k) with k, the minute
\* boundaries counted inside the current 10-minute block, in 0..9.
C4_DroppedPerTenMinutes ==
    (pc = "done" /\ IsDropFrame(args.fps)) =>
        LET l == ret.locals
            k == (l.dropped \div l.drop_frames) - 9 * l.d
        IN  /\ l.dropped = l.drop_frames * (9 * l.d + k)
            /\ k \in 0..9

====
